---- MODULE Spec2Model ----
(***************************************************************************)
(* Model of the versioned load/save store of zod-file (createZodJSON in    *)
(* persistence.ts): construction-time validation of the migration chain,  *)
(* load (read, JSON.parse, version envelope, migration loop, final        *)
(* validation, default/throwOnError policy) and save (encode, wrap,       *)
(* stringify, write).                                                      *)
(*                                                                         *)
(* Values.  A JSON value or in-memory value is a record                    *)
(*   [kind, ver, shape, body, extra, form]                                 *)
(*   kind  : "object", "null" or "prim" (typeof parsed)                    *)
(*   ver   : the value of the object's own _version key (NoTag: no key)    *)
(*   shape : which schema of the chain the remaining fields satisfy;      *)
(*           0 = none of them                                              *)
(*   body  : the content of the fields                                     *)
(*   extra : the object carries a key no schema declares                   *)
(*   form  : "wire" = as stored in the file (input of parse, output of    *)
(*           encode), "mem" = as output by a schema's parse (codec decoded)*)
(***************************************************************************)
EXTENDS Integers, Sequences, FiniteSets, TLC

\* ------------------------------------------------------------------ bounds
MaxVersion == 3
MaxSteps == 2
MaxProducerCalls == 2
MaxTasks == 2

\* `version?: V` left out of the options; configured versions are >= 1
Undefined == 0

Versions == 1..MaxVersion

\* ------------------------------------------------------------ version tags
NoTag == [t |-> "none", n |-> 0]
IntTag(k) == [t |-> "int", n |-> k]
FloatTag == [t |-> "float", n |-> 1]
StringTag == [t |-> "string", n |-> 0]

FileTags == {NoTag, FloatTag, StringTag} \cup {IntTag(k) : k \in (0 - 1)..(MaxVersion + 1)}

Bodies == {"a", "b"}

\* the content of fields of which one holds a BigInt: a value of T when the
\* schema declares a z.bigint() there, never the result of JSON.parse
BigIntBody == "n"

Obj(ver, shape, body, extra, form) ==
  [kind |-> "object", ver |-> ver, shape |-> shape, body |-> body,
   extra |-> extra, form |-> form]

NullValue == [kind |-> "null", ver |-> NoTag, shape |-> 0, body |-> "a",
              extra |-> FALSE, form |-> "wire"]

PrimValue == [kind |-> "prim", ver |-> NoTag, shape |-> 0, body |-> "a",
              extra |-> FALSE, form |-> "wire"]

NoValue == [kind |-> "none", ver |-> NoTag, shape |-> 0, body |-> "a",
            extra |-> FALSE, form |-> "wire"]

\* ------------------------------------------------------------- file system
Missing == [state |-> "missing", text |-> "", indent |-> 0, val |-> NoValue]
Garbage == [state |-> "file", text |-> "garbage", indent |-> 0, val |-> NoValue]
JsonText(v, indent) == [state |-> "file", text |-> "json", indent |-> indent, val |-> v]

\* JSON.stringify(fileData) / JSON.stringify(fileData, null, 2)
JSONstringify(v, compact) == JsonText(v, IF compact THEN 0 ELSE 2)

\* JSON.stringify throws a TypeError (Do not know how to serialize a BigInt)
JSONstringifyThrows(v) == v.body = BigIntBody

\* JSON.parse(fileContent): a SyntaxError on text that is not JSON, else the
\* value, whatever the indentation
JSONparse(content) ==
  IF content.text = "json"
  THEN [ok |-> TRUE, val |-> content.val]
  ELSE [ok |-> FALSE, val |-> NoValue]

\* files an earlier run or another program may have left at the path
ForeignObjects ==
  {Obj(ver, shape, "a", extra, "wire") :
     ver \in FileTags, shape \in 0..MaxVersion, extra \in BOOLEAN}

ForeignFiles ==
  {Garbage} \cup {JsonText(v, 2) : v \in ForeignObjects \cup {NullValue, PrimValue}}

\* ----------------------------------------------------------------- schemas
\* A schema of the chain: shape k, and whether it declares a _version key
Schema(shape, tagged) == [shape |-> shape, tagged |-> tagged]

\* schema.parseAsync(data): z.object validation; unknown keys are stripped,
\* codecs decode wire -> mem
SchemaParse(schema, d) ==
  IF /\ d.kind = "object"
     /\ d.form = "wire"
     /\ d.shape = schema.shape
     /\ d.shape # 0
     /\ (schema.tagged => d.ver.t = "int")
  THEN [ok |-> TRUE,
        val |-> Obj(IF schema.tagged THEN d.ver ELSE NoTag,
                    d.shape, d.body, FALSE, "mem")]
  ELSE [ok |-> FALSE, val |-> NoValue]

\* schema.encodeAsync(data): codecs encode mem -> wire
SchemaEncode(schema, d) ==
  IF /\ d.kind = "object"
     /\ d.form = "mem"
     /\ d.shape = schema.shape
     /\ d.shape # 0
     /\ (schema.tagged => d.ver.t = "int")
     /\ ((~schema.tagged) => d.ver.t = "none")
     /\ ~d.extra
  THEN [ok |-> TRUE, val |-> [d EXCEPT !.form = "wire"]]
  ELSE [ok |-> FALSE, val |-> NoValue]

\* -------------------------------------------------------------- the options
MigrationStep(v) == [version |-> v]

\* the `migrations` arrays a caller may pass: up to MaxSteps steps whose
\* versions are drawn from 0..MaxVersion, in any order, duplicates allowed
RECURSIVE SeqsUpTo(_, _)
SeqsUpTo(S, n) ==
  IF n = 0 THEN {<<>>}
  ELSE LET shorter == SeqsUpTo(S, n - 1)
       IN shorter \cup {Append(q, x) : q \in {r \in shorter : Len(r) = n - 1}, x \in S}

MigrationLists == SeqsUpTo({MigrationStep(v) : v \in 0..MaxVersion}, MaxSteps)

VersionOptions == {Undefined} \cup Versions

DefaultOptions == {"undefined", "literal", "function"}

\* [...migrations].sort((a, b) => a.version - b.version): a stable sort
RECURSIVE Insert(_, _)
Insert(sorted, m) ==
  IF sorted = <<>> THEN <<m>>
  ELSE IF m.version - Head(sorted).version < 0
       THEN <<m>> \o sorted
       ELSE <<Head(sorted)>> \o Insert(Tail(sorted), m)

\* the array used as the caller listed it, not sorted
SortMigrations_None(ms) == ms

RECURSIVE SortMigrations(_)
SortMigrations(ms) ==
  IF ms = <<>> THEN <<>>
  ELSE Insert(SortMigrations(SubSeq(ms, 1, Len(ms) - 1)), ms[Len(ms)])

\* ChainError without its last check: a chain that stops short of
\* version - 1 goes through
ChainError_NoEndCheck(version, sorted) ==
  IF \E i \in 1..Len(sorted) : sorted[i].version # i
  THEN "Migration chain must be sequential"
  ELSE IF Len(sorted) > 0 /\ version = Undefined
  THEN "Version is required when migrations are provided"
  ELSE "none"

\* ChainError with the last two checks run only when a version is configured
ChainError_VersionOptional(version, sorted) ==
  IF \E i \in 1..Len(sorted) : sorted[i].version # i
  THEN "Migration chain must be sequential"
  ELSE IF Len(sorted) > 0 /\ version # Undefined
          /\ sorted[Len(sorted)].version # version - 1
  THEN "Migration chain must end at version"
  ELSE "none"

\* the three construction-time checks of createZodJSON, in the code's order;
\* "none" when construction goes through
ChainError(version, sorted) ==
  IF \E i \in 1..Len(sorted) : sorted[i].version # i
  THEN "Migration chain must be sequential"
  ELSE IF Len(sorted) > 0 /\ version = Undefined
  THEN "Version is required when migrations are provided"
  ELSE IF Len(sorted) > 0 /\ sorted[Len(sorted)].version # version - 1
  THEN "Migration chain must end at version"
  ELSE "none"

VARIABLES
  constructed,       \* "no", "ok" (store returned) or "threw"
  constructError,    \* which check of the constructor threw
  migrations,        \* options.migrations as the caller passed it
  currentVersion,    \* options.version
  sortedMigrations,  \* the constructor's sorted copy
  defaultValue,      \* options.default: "undefined", "literal" or "function"
  schema,            \* options.schema
  disk,              \* the file at filePath
  pc,                \* where the call in flight is suspended
  loadOptions,       \* throwOnError as passed: "omitted", "false", "true"
  throwOnError,
  fileContent,
  parsed,
  data,
  dataVersion,
  fileVersion,
  parsedData,
  asyncSteps,        \* the steps of this load whose transform returned a promise
  compact,
  jsonString,
  outcome,           \* how the last call settled
  log,               \* capability calls of the call in flight, in order
  producerCalls,     \* times the default producer ran
  lastSaved          \* data of the last successful save still on disk

config == <<constructed, constructError, migrations, currentVersion,
            sortedMigrations, defaultValue, schema>>

locals == <<loadOptions, throwOnError, fileContent, parsed, data, dataVersion,
            fileVersion, parsedData, asyncSteps, compact, jsonString>>

vars == <<constructed, constructError, migrations, currentVersion,
          sortedMigrations, defaultValue, schema, disk, pc, loadOptions,
          throwOnError, fileContent, parsed, data, dataVersion, fileVersion,
          parsedData, asyncSteps, compact, jsonString, outcome, log,
          producerCalls, lastSaved>>

\* the state of yaml.ts (createZodYAML and the store it wraps)
VARIABLES
  jsYamlInstalled,   \* whether import('js-yaml') resolves
  jsYamlModule,      \* let jsYamlModule: the module cache, "undefined" or "js-yaml"
  yamlSerializer,    \* the object createYAMLSerializer returned: which parse
                     \* and stringify functions it holds
  yamlStore,         \* the options of the store createZodYAML returned
  yamlFile,          \* the file at path
  task               \* the load and save calls in flight, one per logical task

yamlVars == <<jsYamlInstalled, jsYamlModule, yamlSerializer, yamlStore, yamlFile, task>>

Tasks == 1..MaxTasks

\* the options object a caller passes to load: not given at all, or given
\* with or without throwOnError and with or without an option meant for the
\* serializer
LoadOptions(given, toe, other) ==
  [given |-> given, throwOnError |-> toe, testLoadOption |-> other]

NoLoadOptions == LoadOptions(FALSE, "omitted", FALSE)

LoadOptionObjects ==
  {NoLoadOptions,
   LoadOptions(TRUE, "true", FALSE),
   LoadOptions(TRUE, "omitted", TRUE),
   LoadOptions(TRUE, "true", TRUE)}

\* createYAMLSerializer(): parse and stringify read the closure variable
\* yaml, which nothing assigns
OriginalSerializer == [parse |-> "original", stringify |-> "original"]

NoStore == [created |-> FALSE, default |-> "undefined"]

NoTaskOutcome == [type |-> "none", code |-> "none", cause |-> "none", value |-> NoValue]

\* a task with no call in flight
IdleTask ==
  [pc |-> "idle", op |-> "none", opts |-> NoLoadOptions, data |-> NoValue,
   compact |-> FALSE, importing |-> FALSE, parsed |-> NoValue,
   text |-> Missing, trace |-> <<>>, outcome |-> NoTaskOutcome]

\* type: "value" (load resolved with result), "default" (load resolved with
\* getDefault()), "saved", "throw"; code, cause, version: the thrown error's
\* code, cause and the version its message names; stage: the failure that
\* was routed through the policy, also when the default is returned
NoOutcome == [type |-> "none", code |-> "none", cause |-> "none",
              value |-> NoValue, callId |-> 0, version |-> 0, stage |-> "none"]

Event(op, v, arg) == [op |-> op, v |-> v, arg |-> arg]

Init ==
  /\ constructed = "no"
  /\ constructError = "none"
  /\ migrations = <<>>
  /\ currentVersion = Undefined
  /\ sortedMigrations = <<>>
  /\ defaultValue = "undefined"
  /\ schema = Schema(1, FALSE)
  /\ disk = Missing
  /\ pc = "idle"
  /\ loadOptions = "omitted"
  /\ throwOnError = FALSE
  /\ fileContent = Missing
  /\ parsed = NoValue
  /\ data = NoValue
  /\ dataVersion = 0
  /\ fileVersion = 0
  /\ parsedData = NoValue
  /\ asyncSteps = {}
  /\ compact = FALSE
  /\ jsonString = Missing
  /\ outcome = NoOutcome
  /\ log = <<>>
  /\ producerCalls = 0
  /\ lastSaved = NoValue
  /\ jsYamlInstalled = FALSE
  /\ jsYamlModule = "undefined"
  /\ yamlSerializer = OriginalSerializer
  /\ yamlStore = NoStore
  /\ yamlFile = Missing
  /\ task = [t \in Tasks |-> IdleTask]

\* the shape the current schema describes: that of the current version
SchemaShape(version) == IF version = Undefined THEN 1 ELSE version

\* createZodJSON(options)
CreateZodJSON(version, ms, default, tagged) ==
  /\ constructed = "no"
  /\ LET sorted == SortMigrations(ms)
         err == ChainError(version, sorted)
     IN /\ migrations' = ms
        /\ constructError' = err
        /\ currentVersion' = version
        /\ sortedMigrations' = sorted
        /\ defaultValue' = default
        /\ schema' = Schema(SchemaShape(version), tagged)
        /\ constructed' = IF err # "none" THEN "threw" ELSE "ok"
  /\ UNCHANGED <<disk, pc, locals, outcome, log, producerCalls, lastSaved>>
  /\ UNCHANGED yamlVars

\* ------------------------------------------------------ the default policy
\* the object configured as options.default, or returned by the producer
DefaultObject ==
  Obj(IF schema.tagged THEN IntTag(1) ELSE NoTag, schema.shape, "d", FALSE, "mem")

Thrown(code, cause, version) ==
  [type |-> "throw", code |-> code, cause |-> cause, value |-> NoValue,
   callId |-> 0, version |-> version, stage |-> code]

\* the producer's first result is kept and returned again
GetDefault_Cached(stage) ==
  [type |-> IF defaultValue = "undefined" THEN "throw" ELSE "default",
   code |-> IF defaultValue = "undefined" THEN "untyped" ELSE "none",
   cause |-> "none",
   value |-> IF defaultValue = "undefined" THEN NoValue ELSE DefaultObject,
   callId |-> IF defaultValue = "function" THEN 1 ELSE 0,
   version |-> 0, stage |-> stage]

\* getDefault(): a plain Error without a default, a fresh call of the
\* producer, or the literal
GetDefault(stage) ==
  IF defaultValue = "undefined"
  THEN [type |-> "throw", code |-> "untyped", cause |-> "none",
        value |-> NoValue, callId |-> 0, version |-> 0, stage |-> stage]
  ELSE IF defaultValue = "function"
  THEN [type |-> "default", code |-> "none", cause |-> "none",
        value |-> DefaultObject, callId |-> producerCalls + 1, version |-> 0,
        stage |-> stage]
  ELSE [type |-> "default", code |-> "none", cause |-> "none",
        value |-> DefaultObject, callId |-> 0, version |-> 0, stage |-> stage]

\* the test on the default inverted: a configured default makes load throw
MustThrow_Inverted == throwOnError \/ defaultValue # "undefined"

\* a configured default wins over throwOnError
MustThrow_DefaultWins == defaultValue = "undefined"

\* only the option is looked at, not whether a default exists
MustThrow_OnlyFlag == throwOnError

\* if (throwOnError || defaultValue === undefined) throw new ZodJSONError(...)
\* return getDefault()
MustThrow == throwOnError \/ defaultValue = "undefined"

\* getDefault() is evaluated before the policy is tested: the default is
\* consulted also by a load that throws
Fail_DefaultFirst(code, cause, version, lg) ==
  /\ pc' = "done"
  /\ outcome' = IF MustThrow /\ defaultValue # "undefined"
                THEN Thrown(code, cause, version)
                ELSE GetDefault(code)
  /\ log' = IF defaultValue = "function"
            THEN lg \o <<Event("getDefault", 0, NoValue),
                         Event("defaultValue()", 0, NoValue)>>
            ELSE Append(lg, Event("getDefault", 0, NoValue))
  /\ producerCalls' = IF defaultValue = "function"
                      THEN producerCalls + 1 ELSE producerCalls

Fail(code, cause, version, lg) ==
  /\ pc' = "done"
  /\ IF MustThrow
     THEN /\ outcome' = Thrown(code, cause, version)
          /\ log' = lg
          /\ UNCHANGED producerCalls
     ELSE /\ outcome' = GetDefault(code)
          /\ log' = IF defaultValue = "function"
                    THEN lg \o <<Event("getDefault", 0, NoValue),
                                 Event("defaultValue()", 0, NoValue)>>
                    ELSE Append(lg, Event("getDefault", 0, NoValue))
          /\ producerCalls' = IF defaultValue = "function"
                              THEN producerCalls + 1 ELSE producerCalls

\* ------------------------------------------------------------------- load
LoadOptionValues == {"omitted", "false", "true"}

\* load(filePath, loadOptions) up to its first await: fs.readFile
LoadStart(opt) ==
  /\ constructed = "ok"
  /\ pc = "idle"
  /\ (defaultValue = "function" => producerCalls < MaxProducerCalls)
  /\ loadOptions' = opt
  /\ throwOnError' = (opt = "true")
  /\ pc' = "readFile"
  /\ log' = <<Event("readFile", 0, NoValue)>>
  /\ outcome' = NoOutcome
  /\ UNCHANGED <<config, disk, fileContent, parsed, data, dataVersion,
                 fileVersion, parsedData, asyncSteps, compact, jsonString, producerCalls,
                 lastSaved>>
  /\ UNCHANGED yamlVars

\* sortedMigrations.find((m) => m.version === dataVersion): its index, 0 for
\* undefined
FindMigration(dv) ==
  IF \E i \in 1..Len(sortedMigrations) : sortedMigrations[i].version = dv
  THEN CHOOSE i \in 1..Len(sortedMigrations) :
         /\ sortedMigrations[i].version = dv
         /\ \A j \in 1..(i - 1) : sortedMigrations[j].version # dv
  ELSE 0

\* the schema of the migration step for version v
StepSchema(v) == Schema(v, FALSE)

\* the loop stops one version short of the current one
LoopContinues_StopsEarly(dv) == dv < currentVersion - 1

\* the loop runs once more at the current version
LoopContinues_Inclusive(dv) == dv <= currentVersion

\* while (dataVersion < currentVersion)
LoopContinues(dv) == dv < currentVersion

\* a file one version ahead of the store is let through
IsUnsupported_OffByOne(fv) == fv > currentVersion + 1

\* the test is left out
IsUnsupported_Never(fv) == FALSE

\* if (fileVersion > currentVersion)
IsUnsupported(fv) == fv > currentVersion

\* the missing step is not noticed: the data goes to the final validation
NoMigrationFound_Ignored(dv, lg) ==
  /\ pc' = "validate"
  /\ log' = Append(lg, Event("schema.parseAsync", 0, data'))
  /\ UNCHANGED <<outcome, producerCalls>>

\* if (migration === undefined): `No migration found for version
\* ${dataVersion}`, or the default
NoMigrationFound(dv, lg) == Fail("Migration", "none", dv, lg)

\* top of `while (dataVersion < currentVersion)` with data d at version dv,
\* up to the next await
LoopHead(d, dv, lg) ==
  /\ data' = d
  /\ dataVersion' = dv
  /\ IF LoopContinues(dv)
     THEN IF FindMigration(dv) = 0
          THEN NoMigrationFound(dv, lg)
          ELSE /\ pc' = "stepParse"
               /\ log' = Append(lg, Event("migration.schema.parseAsync",
                                           sortedMigrations[FindMigration(dv)].version, d))
               /\ UNCHANGED <<outcome, producerCalls>>
     ELSE /\ pc' = "validate"
          /\ log' = Append(lg, Event("schema.parseAsync", 0, d))
          /\ UNCHANGED <<outcome, producerCalls>>

\* the parsed object is used whole, _version included
ExtractData_KeepsTag(p) == p

\* const { _version: _unused, ...extractedData } = parsed
ExtractData(p) == [p EXCEPT !.ver = NoTag]

\* version 0 is let through (versionValue < 0)
InvalidVersionValue_AllowsZero(tag) == tag.t # "int" \/ tag.n < 0

\* typeof versionValue !== 'number' || !Number.isInteger(versionValue) ||
\* versionValue <= 0
InvalidVersionValue(tag) == tag.t # "int" \/ tag.n <= 0

\* every load is answered from the content found when the store was made
ReadFile_AtConstruction == Missing

\* await fs.readFile(filePath, 'utf-8'): the file as it is now
ReadFile == disk

\* the _version key is taken out also when no version is configured
UnversionedData_Extracted(p) == [p EXCEPT !.ver = NoTag]

\* data = parsed
UnversionedData(p) == p

\* fs.readFile settles: the catch, or JSON.parse, the version envelope and the
\* loop head, up to the next await
LoadRead ==
  /\ pc = "readFile"
  /\ IF ReadFile.state = "missing"
     THEN /\ Fail("FileRead", "Error", 0, log)
          /\ UNCHANGED <<fileContent, parsed, data, dataVersion, fileVersion>>
     ELSE /\ fileContent' = ReadFile
          /\ LET r == JSONparse(ReadFile)
                 lg == Append(log, Event("JSON.parse", 0, NoValue))
             IN IF ~r.ok
                THEN /\ Fail("InvalidJSON", "SyntaxError", 0, lg)
                     /\ UNCHANGED <<parsed, data, dataVersion, fileVersion>>
                ELSE /\ parsed' = r.val
                     /\ IF currentVersion # Undefined
                        THEN IF r.val.kind # "object" \/ r.val.ver.t = "none"
                             THEN /\ Fail("InvalidVersion", "none", 0, lg)
                                  /\ UNCHANGED <<data, dataVersion, fileVersion>>
                             ELSE IF InvalidVersionValue(r.val.ver)
                             THEN /\ Fail("InvalidVersion", "none", 0, lg)
                                  /\ UNCHANGED <<data, dataVersion, fileVersion>>
                             ELSE /\ fileVersion' = r.val.ver.n
                                  /\ IF IsUnsupported(r.val.ver.n)
                                     THEN /\ Fail("UnsupportedVersion", "none", r.val.ver.n, lg)
                                          /\ UNCHANGED <<data, dataVersion>>
                                     ELSE LoopHead(ExtractData(r.val), r.val.ver.n, lg)
                        ELSE /\ data' = UnversionedData(r.val)
                             /\ pc' = "validate"
                             /\ log' = Append(lg, Event("schema.parseAsync", 0,
                                                        UnversionedData(r.val)))
                             /\ UNCHANGED <<dataVersion, fileVersion, outcome, producerCalls>>
  /\ UNCHANGED <<config, disk, loadOptions, throwOnError, parsedData, asyncSteps, compact,
                 jsonString, lastSaved>>
  /\ UNCHANGED yamlVars

\* the step's schema lets everything through, unvalidated
StepParse_NoValidate(v, d) == [ok |-> TRUE, val |-> d]

\* await migration.schema.parseAsync(data) for the step of version v
StepParse(v, d) == SchemaParse(StepSchema(v), d)

\* the message names the version the file had, not the failing step's
MigrationMessageVersion_FileVersion(dv) == fileVersion

\* `Migration from version ${dataVersion} failed in file: ...`
MigrationMessageVersion(dv) == dv

\* migration.schema.parseAsync(data) settles: the catch, or the call of
\* migration.migrate(parsedData), which may throw at once
LoadStepParsed(throws) ==
  /\ pc = "stepParse"
  /\ LET r == StepParse(sortedMigrations[FindMigration(dataVersion)].version, data)
     IN IF ~r.ok
        THEN /\ Fail("Migration", "ZodError", MigrationMessageVersion(dataVersion), log)
             /\ UNCHANGED parsedData
        ELSE /\ parsedData' = r.val
             /\ LET m == sortedMigrations[FindMigration(dataVersion)]
                IN IF throws
                   THEN Fail("Migration", "Error", MigrationMessageVersion(dataVersion),
                             log \o <<Event("migration.migrate", m.version, r.val),
                                      Event("migrate throws", m.version, NoValue)>>)
                   ELSE /\ pc' = "migrate"
                        /\ log' = Append(log, Event("migration.migrate", m.version, r.val))
                        /\ UNCHANGED <<outcome, producerCalls>>
  /\ UNCHANGED <<config, disk, loadOptions, throwOnError, fileContent, parsed,
                 data, dataVersion, fileVersion, asyncSteps, compact, jsonString,
                 lastSaved>>
  /\ UNCHANGED yamlVars

\* what a transform for version v may resolve with, given its input: an
\* object for version v + 1 (with or without a key the next schema does not
\* declare) or an object no schema accepts
MigrateResults(v, input) ==
  {Obj(NoTag, v + 1, input.body, x, "wire") : x \in BOOLEAN}
    \cup {Obj(NoTag, 0, input.body, FALSE, "wire")}

\* a Promise object: no schema accepts it
PromiseObject == Obj(NoTag, 0, "a", FALSE, "wire")

\* a promise returned by the transform is not awaited: data is the promise
Awaited_NotAwaited(async, result) == IF async THEN PromiseObject ELSE result

\* data = await Promise.resolve(migrationResult): the value a synchronous
\* transform returned, or the value its promise resolved with
Awaited(async, result) == result

\* the data version is not advanced
NextDataVersion_Stuck(dv) == dv

\* dataVersion++
NextDataVersion(dv) == dv + 1

\* await Promise.resolve(migrationResult) settles, for a transform that
\* returned a value (async = FALSE) or a promise: the catch on a rejection, or
\* data = result, dataVersion++ and the loop head
LoadMigrated(async, rejects, result) ==
  /\ pc = "migrate"
  /\ rejects => async
  /\ result \in MigrateResults(dataVersion, parsedData)
  /\ asyncSteps' = IF async THEN asyncSteps \cup {dataVersion} ELSE asyncSteps
  /\ IF rejects
     THEN /\ Fail("Migration", "Error", MigrationMessageVersion(dataVersion),
                  Append(log, Event("migrate throws", log[Len(log)].v, NoValue)))
          /\ UNCHANGED <<data, dataVersion>>
     ELSE LoopHead(Awaited(async, result), NextDataVersion(dataVersion),
                   Append(log, Event("migrate resolves", log[Len(log)].v, result)))
  /\ UNCHANGED <<config, disk, loadOptions, throwOnError, fileContent, parsed,
                 fileVersion, parsedData, compact, jsonString, lastSaved>>
  /\ UNCHANGED yamlVars

\* the data is returned as it is, without the current schema's parse
FinalParse_PassThrough(d) == [ok |-> TRUE, val |-> d]

\* await schema.parseAsync(data)
FinalParse(d) == SchemaParse(schema, d)

\* schema.parseAsync(data) settles: return result, or the catch
LoadValidated ==
  /\ pc = "validate"
  /\ LET r == FinalParse(data)
     IN IF r.ok
        THEN /\ pc' = "done"
             /\ outcome' = [type |-> "value", code |-> "none", cause |-> "none",
                            value |-> r.val, callId |-> 0, version |-> 0,
                            stage |-> "none"]
             /\ UNCHANGED <<log, producerCalls>>
        ELSE Fail("Validation", "ZodError", 0, log)
  /\ UNCHANGED <<config, disk, locals, lastSaved>>
  /\ UNCHANGED yamlVars

\* ------------------------------------------------------------------- save
\* the values of type T a caller may hand to save, and objects that are not
\* of type T (shape 0)
SaveInputs ==
  {Obj(tag, shape, body, FALSE, "mem") :
     tag \in (IF schema.tagged THEN {IntTag(k) : k \in Versions} ELSE {NoTag}),
     shape \in {0, schema.shape},
     body \in Bodies \cup {BigIntBody}}

\* save(data, filePath, saveOptions) up to its first await: schema.encodeAsync
SaveStart(d, c) ==
  /\ constructed = "ok"
  /\ pc = "idle"
  /\ d \in SaveInputs
  /\ data' = d
  /\ compact' = c
  /\ pc' = "encode"
  /\ log' = <<Event("schema.encodeAsync", 0, d)>>
  /\ outcome' = NoOutcome
  /\ UNCHANGED <<config, disk, loadOptions, throwOnError, fileContent, parsed,
                 dataVersion, fileVersion, parsedData, asyncSteps, jsonString,
                 producerCalls, lastSaved>>
  /\ UNCHANGED yamlVars

\* the encoded data is written without a version tag
WrapVersion_Never(encoded) == encoded

\* { _version: currentVersion, ...(typeof encoded === 'object' && encoded !==
\* null ? encoded : {}) }: a key of the spread object replaces the key before it
WrapVersion(encoded) ==
  IF currentVersion # Undefined
  THEN IF encoded.kind = "object"
       THEN [encoded EXCEPT !.ver = IF encoded.ver.t # "none"
                                     THEN encoded.ver
                                     ELSE IntTag(currentVersion)]
       ELSE Obj(IntTag(currentVersion), 0, "a", FALSE, "wire")
  ELSE encoded

\* the catch records nothing and save resolves
SaveThrows_Swallowed(code, cause) ==
  [type |-> "saved", code |-> "none", cause |-> "none", value |-> NoValue,
   callId |-> 0, version |-> 0, stage |-> "none"]

\* the error is thrown without its cause
SaveThrows_NoCause(code, cause) == Thrown(code, "none", 0)

\* save's catch blocks: throw new ZodJSONError(code, message, cause)
SaveThrows(code, cause) == Thrown(code, cause, 0)

\* an exception thrown outside every try block rejects the call as it is: the
\* error is not a ZodJSONError and has no code
Uncaught(stage) ==
  [type |-> "throw", code |-> "untyped", cause |-> "none", value |-> NoValue,
   callId |-> 0, version |-> 0, stage |-> stage]

\* schema.encodeAsync settles: the catch, or wrap, JSON.stringify (outside
\* every try block) and the call of fs.writeFile
SaveEncoded ==
  /\ pc = "encode"
  /\ LET r == SchemaEncode(schema, data)
     IN IF ~r.ok
        THEN /\ pc' = "done"
             /\ outcome' = SaveThrows("Encoding", "ZodError")
             /\ log' = log
             /\ UNCHANGED jsonString
        ELSE IF JSONstringifyThrows(WrapVersion(r.val))
        THEN /\ pc' = "done"
             /\ outcome' = Uncaught("JSON.stringify")
             /\ log' = Append(log, Event("JSON.stringify", 0, WrapVersion(r.val)))
             /\ UNCHANGED jsonString
        ELSE /\ jsonString' = JSONstringify(WrapVersion(r.val), compact)
             /\ pc' = "writeFile"
             /\ log' = log \o <<Event("JSON.stringify", 0, WrapVersion(r.val)),
                                Event("writeFile", 0, NoValue)>>
             /\ UNCHANGED outcome
  /\ UNCHANGED <<config, disk, loadOptions, throwOnError, fileContent, parsed,
                 data, dataVersion, fileVersion, parsedData, asyncSteps, compact,
                 producerCalls, lastSaved>>
  /\ UNCHANGED yamlVars

\* fs.writeFile settles: the file holds jsonString, or the catch
SaveWritten(ok) ==
  /\ pc = "writeFile"
  /\ pc' = "done"
  /\ IF ok
     THEN /\ disk' = jsonString
          /\ lastSaved' = data
          /\ outcome' = [type |-> "saved", code |-> "none", cause |-> "none",
                         value |-> NoValue, callId |-> 0, version |-> 0,
                         stage |-> "none"]
     ELSE /\ outcome' = SaveThrows("FileWrite", "Error")
          /\ UNCHANGED <<disk, lastSaved>>
  /\ log' = Append(log, Event(IF ok THEN "writeFile resolves" ELSE "writeFile rejects",
                              0, NoValue))
  /\ UNCHANGED <<config, locals, producerCalls>>
  /\ UNCHANGED yamlVars

\* ------------------------------------------------------------ environment
\* the caller takes the settled call's result
Return ==
  /\ pc = "done"
  /\ pc' = "idle"
  /\ loadOptions' = "omitted"
  /\ throwOnError' = FALSE
  /\ fileContent' = Missing
  /\ parsed' = NoValue
  /\ data' = NoValue
  /\ dataVersion' = 0
  /\ fileVersion' = 0
  /\ parsedData' = NoValue
  /\ asyncSteps' = {}
  /\ compact' = FALSE
  /\ jsonString' = Missing
  /\ outcome' = NoOutcome
  /\ log' = <<>>
  /\ UNCHANGED <<config, disk, producerCalls, lastSaved>>
  /\ UNCHANGED yamlVars

\* between calls, the file is replaced or removed from outside the store
ExternalWrite(f) ==
  /\ pc = "idle"
  /\ constructed = "ok"
  /\ f \in ForeignFiles \cup {Missing}
  /\ f # disk
  /\ disk' = f
  /\ lastSaved' = NoValue
  /\ UNCHANGED <<config, pc, locals, outcome, log, producerCalls>>
  /\ UNCHANGED yamlVars

Next ==
  \/ \E version \in VersionOptions, ms \in MigrationLists,
        default \in DefaultOptions, tagged \in BOOLEAN :
       CreateZodJSON(version, ms, default, tagged)
  \/ \E opt \in LoadOptionValues : LoadStart(opt)
  \/ LoadRead
  \/ \E throws \in BOOLEAN : LoadStepParsed(throws)
  \/ \E async \in BOOLEAN, rejects \in BOOLEAN,
        result \in MigrateResults(dataVersion, parsedData) :
       LoadMigrated(async, rejects, result)
  \/ LoadValidated
  \/ \E d \in SaveInputs, c \in BOOLEAN : SaveStart(d, c)
  \/ SaveEncoded
  \/ \E ok \in BOOLEAN : SaveWritten(ok)
  \/ Return
  \/ \E f \in ForeignFiles \cup {Missing} : ExternalWrite(f)

Spec == Init /\ [][Next]_vars

\* a pending capability call (read, schema operation, transform, write)
\* resolves or rejects
Settle ==
  \/ LoadRead
  \/ \E throws \in BOOLEAN : LoadStepParsed(throws)
  \/ \E async \in BOOLEAN, rejects \in BOOLEAN,
        result \in MigrateResults(dataVersion, parsedData) :
       LoadMigrated(async, rejects, result)
  \/ LoadValidated
  \/ SaveEncoded
  \/ \E ok \in BOOLEAN : SaveWritten(ok)

\* Spec with every pending capability call settling eventually
SpecLive == Init /\ [][Next]_vars /\ WF_vars(Settle)

\* ------------------------------------------------------------------- yaml
\* the stores of this part are created with a schema and a default only (no
\* version, no migrations)
YamlSchema == Schema(1, FALSE)

YamlDefaults == {"undefined", "literal"}

YamlDefaultObject == Obj(NoTag, 1, "b", FALSE, "mem")

\* yaml.dump(data, {indent: compact ? 0 : 2, ...})
YamlDump(v, c) == [state |-> "file", text |-> "yaml", indent |-> IF c THEN 0 ELSE 2, val |-> v]

\* yaml.load(content): a YAMLException on text that is not YAML
YamlLoad(content) ==
  IF content.text = "yaml"
  THEN [ok |-> TRUE, val |-> content.val]
  ELSE [ok |-> FALSE, val |-> NoValue]

YamlForeignFiles ==
  {Garbage, YamlDump(Obj(NoTag, 1, "a", FALSE, "wire"), FALSE),
   YamlDump(Obj(NoTag, 0, "a", FALSE, "wire"), FALSE)}

YamlSaveInputs == {Obj(NoTag, 1, "a", FALSE, "mem"), Obj(NoTag, 0, "a", FALSE, "mem")}

\* a call a task made to the file system, the serializer or the schema (or
\* the import that failed): the operation, its argument and the options it
\* was given
TaskEvent(op, arg, opts) == [op |-> op, arg |-> arg, opts |-> opts]

TaskThrown(code, cause) ==
  [type |-> "throw", code |-> code, cause |-> cause, value |-> NoValue]

\* createZodYAML(options): a fresh serializer and a store around it; nothing
\* is imported
CreateZodYAML(default) ==
  /\ \A t \in Tasks : task[t].pc = "idle"
  /\ default \in YamlDefaults
  /\ yamlStore' = [created |-> TRUE, default |-> default]
  /\ yamlSerializer' = OriginalSerializer
  /\ UNCHANGED <<jsYamlInstalled, jsYamlModule, yamlFile, task>>
  /\ UNCHANGED vars

\* the cache is not looked at: every call imports
StartsImport_Always == TRUE

\* getJsYaml() up to its return or its await: the cached module, or
\* import('js-yaml') started
StartsImport == jsYamlModule = "undefined"

\* the wrapper's load(path, loadOptions) up to `await getJsYaml()`
YamlLoadStart(t, o) ==
  /\ yamlStore.created
  /\ task[t].pc = "idle"
  /\ o \in LoadOptionObjects
  /\ task' = [task EXCEPT ![t] =
                [IdleTask EXCEPT !.pc = "getJsYaml", !.op = "load", !.opts = o,
                                 !.importing = StartsImport]]
  /\ UNCHANGED <<jsYamlInstalled, jsYamlModule, yamlSerializer, yamlStore, yamlFile>>
  /\ UNCHANGED vars

\* the wrapper's save(data, path, saveOptions) up to `await getJsYaml()`
YamlSaveStart(t, d, c) ==
  /\ yamlStore.created
  /\ task[t].pc = "idle"
  /\ d \in YamlSaveInputs
  /\ task' = [task EXCEPT ![t] =
                [IdleTask EXCEPT !.pc = "getJsYaml", !.op = "save", !.data = d,
                                 !.compact = c,
                                 !.importing = StartsImport]]
  /\ UNCHANGED <<jsYamlInstalled, jsYamlModule, yamlSerializer, yamlStore, yamlFile>>
  /\ UNCHANGED vars

\* import('js-yaml') settles
ImportJsYaml ==
  IF jsYamlInstalled
  THEN [ok |-> TRUE, module |-> "js-yaml"]
  ELSE [ok |-> FALSE, module |-> "undefined"]

\* the failed import is ignored and the wrapper goes on
GetJsYamlRejects_Never(r) == FALSE

\* getJsYaml's catch: throw new ZodStoreError('MissingDependency', ...)
GetJsYamlRejects(r) == ~r.ok

\* the rest parameter of load's options is passed with throwOnError in it
SerializerOptions_Whole(o) == o

\* const { throwOnError = false, ...serializerOptions } = loadOptions: what the
\* store hands to the serializer's decode; undefined when load got no options
SerializerOptions(o) ==
  IF o.given THEN [o EXCEPT !.throwOnError = "omitted"] ELSE NoLoadOptions

\* the serializer is left as createYAMLSerializer made it
ObjectAssign_Skipped(serializer) == serializer

\* Object.assign(yamlSerializer, {parse, stringify}): both members now call
\* the loaded module
ObjectAssign(serializer) == [parse |-> "patched", stringify |-> "patched"]

\* `await getJsYaml()` resumes: the rejection leaves the wrapper; else
\* Object.assign(yamlSerializer, {parse, stringify}) and store.load or
\* store.save up to its first await
GetJsYamlSettled(t) ==
  /\ task[t].pc = "getJsYaml"
  /\ LET tk == task[t]
         r == IF tk.importing THEN ImportJsYaml ELSE [ok |-> TRUE, module |-> "js-yaml"]
     IN IF GetJsYamlRejects(r)
        THEN /\ task' = [task EXCEPT ![t] =
                           [tk EXCEPT !.pc = "done", !.importing = FALSE,
                                      !.trace = <<TaskEvent("import rejects", NoValue,
                                                            NoLoadOptions)>>,
                                      !.outcome = TaskThrown("MissingDependency", "none")]]
             /\ UNCHANGED <<jsYamlModule, yamlSerializer>>
        ELSE /\ jsYamlModule' = IF tk.importing THEN r.module ELSE jsYamlModule
             /\ yamlSerializer' = ObjectAssign(yamlSerializer)
             /\ task' = [task EXCEPT ![t] =
                           IF tk.op = "load"
                           THEN [tk EXCEPT !.pc = "readFile", !.importing = FALSE,
                                           !.trace = <<TaskEvent("readFile", NoValue,
                                                                 NoLoadOptions)>>]
                           ELSE [tk EXCEPT !.pc = "encode", !.importing = FALSE,
                                           !.trace = <<TaskEvent("schema.encodeAsync", tk.data,
                                                                 NoLoadOptions)>>]]
  /\ UNCHANGED <<jsYamlInstalled, yamlStore, yamlFile>>
  /\ UNCHANGED vars

\* the store's policy on a failed load: throw the typed error, or the default
StoreFail(tk, code, cause, trace) ==
  IF tk.opts.throwOnError = "true" \/ yamlStore.default = "undefined"
  THEN [tk EXCEPT !.pc = "done", !.trace = trace, !.outcome = TaskThrown(code, cause)]
  ELSE [tk EXCEPT !.pc = "done", !.trace = trace,
                  !.outcome = [type |-> "default", code |-> "none", cause |-> "none",
                               value |-> YamlDefaultObject]]

\* store.load: the read settles; the serializer decodes the content with the
\* serializer options; schema.parseAsync is called
StoreRead(t) ==
  /\ task[t].pc = "readFile"
  /\ LET tk == task[t]
         decode == Append(tk.trace,
                          TaskEvent("serializer.parse", yamlFile, SerializerOptions(tk.opts)))
     IN task' = [task EXCEPT ![t] =
                   IF yamlFile.state = "missing"
                   THEN StoreFail(tk, "FileRead", "Error", tk.trace)
                   ELSE IF yamlSerializer.parse = "original"
                   THEN StoreFail(tk, "InvalidFormat", "ZodStoreError", decode)
                   ELSE IF ~YamlLoad(yamlFile).ok
                   THEN StoreFail(tk, "InvalidFormat", "YAMLException", decode)
                   ELSE [tk EXCEPT !.pc = "validate",
                                   !.parsed = YamlLoad(yamlFile).val,
                                   !.trace = Append(decode,
                                               TaskEvent("schema.parseAsync",
                                                         YamlLoad(yamlFile).val, NoLoadOptions))]]
  /\ UNCHANGED <<jsYamlInstalled, jsYamlModule, yamlSerializer, yamlStore, yamlFile>>
  /\ UNCHANGED vars

\* store.load: schema.parseAsync settles
StoreValidated(t) ==
  /\ task[t].pc = "validate"
  /\ LET tk == task[t]
         r == SchemaParse(YamlSchema, tk.parsed)
     IN task' = [task EXCEPT ![t] =
                   IF r.ok
                   THEN [tk EXCEPT !.pc = "done",
                                   !.outcome = [type |-> "value", code |-> "none",
                                                cause |-> "none", value |-> r.val]]
                   ELSE StoreFail(tk, "Validation", "ZodError", tk.trace)]
  /\ UNCHANGED <<jsYamlInstalled, jsYamlModule, yamlSerializer, yamlStore, yamlFile>>
  /\ UNCHANGED vars

\* store.save: schema.encodeAsync settles; the serializer encodes; fs.writeFile
\* is called
StoreEncoded(t) ==
  /\ task[t].pc = "encode"
  /\ LET tk == task[t]
         r == SchemaEncode(YamlSchema, tk.data)
         encode == Append(tk.trace, TaskEvent("serializer.stringify", r.val, NoLoadOptions))
     IN task' = [task EXCEPT ![t] =
                   IF ~r.ok
                   THEN [tk EXCEPT !.pc = "done",
                                   !.outcome = TaskThrown("Encoding", "ZodError")]
                   ELSE IF yamlSerializer.stringify = "original"
                   THEN [tk EXCEPT !.pc = "done", !.trace = encode,
                                   !.outcome = TaskThrown("MissingDependency", "none")]
                   ELSE [tk EXCEPT !.pc = "writeFile",
                                   !.text = YamlDump(r.val, tk.compact),
                                   !.trace = Append(encode,
                                               TaskEvent("writeFile", NoValue, NoLoadOptions))]]
  /\ UNCHANGED <<jsYamlInstalled, jsYamlModule, yamlSerializer, yamlStore, yamlFile>>
  /\ UNCHANGED vars

\* store.save: fs.writeFile settles
StoreWritten(t, ok) ==
  /\ task[t].pc = "writeFile"
  /\ LET tk == task[t]
     IN IF ok
        THEN /\ yamlFile' = tk.text
             /\ task' = [task EXCEPT ![t] =
                           [tk EXCEPT !.pc = "done",
                                      !.outcome = [type |-> "saved", code |-> "none",
                                                   cause |-> "none", value |-> NoValue]]]
        ELSE /\ task' = [task EXCEPT ![t] =
                           [tk EXCEPT !.pc = "done",
                                      !.outcome = TaskThrown("FileWrite", "Error")]]
             /\ UNCHANGED yamlFile
  /\ UNCHANGED <<jsYamlInstalled, jsYamlModule, yamlSerializer, yamlStore>>
  /\ UNCHANGED vars

\* the caller takes the settled call's result
TaskReturn(t) ==
  /\ task[t].pc = "done"
  /\ task' = [task EXCEPT ![t] = IdleTask]
  /\ UNCHANGED <<jsYamlInstalled, jsYamlModule, yamlSerializer, yamlStore, yamlFile>>
  /\ UNCHANGED vars

\* js-yaml is installed (npm install js-yaml)
InstallJsYaml ==
  /\ ~jsYamlInstalled
  /\ jsYamlInstalled' = TRUE
  /\ UNCHANGED <<jsYamlModule, yamlSerializer, yamlStore, yamlFile, task>>
  /\ UNCHANGED vars

\* between calls, the file is replaced or removed from outside the store
YamlExternalWrite(f) ==
  /\ yamlStore.created
  /\ \A t \in Tasks : task[t].pc = "idle"
  /\ f \in YamlForeignFiles \cup {Missing}
  /\ f # yamlFile
  /\ yamlFile' = f
  /\ UNCHANGED <<jsYamlInstalled, jsYamlModule, yamlSerializer, yamlStore, task>>
  /\ UNCHANGED vars

NextYaml ==
  \/ \E default \in YamlDefaults : CreateZodYAML(default)
  \/ \E t \in Tasks, o \in LoadOptionObjects : YamlLoadStart(t, o)
  \/ \E t \in Tasks, d \in YamlSaveInputs, c \in BOOLEAN : YamlSaveStart(t, d, c)
  \/ \E t \in Tasks : GetJsYamlSettled(t)
  \/ \E t \in Tasks : StoreRead(t)
  \/ \E t \in Tasks : StoreValidated(t)
  \/ \E t \in Tasks : StoreEncoded(t)
  \/ \E t \in Tasks, ok \in BOOLEAN : StoreWritten(t, ok)
  \/ \E t \in Tasks : TaskReturn(t)
  \/ InstallJsYaml
  \/ \E f \in YamlForeignFiles \cup {Missing} : YamlExternalWrite(f)

SpecYaml == Init /\ [][NextYaml]_yamlVars

\* ================================================================== claims
LoadDone == pc = "done" /\ Len(log) > 0 /\ log[1].op = "readFile"

SaveDone == pc = "done" /\ Len(log) > 0 /\ log[1].op = "schema.encodeAsync"

Versioned == currentVersion # Undefined

\* the versions of the caller's list are exactly {1, ..., n - 1}, each once
IsExactChain(ms, n) ==
  /\ Len(ms) = n - 1
  /\ {ms[i].version : i \in 1..Len(ms)} = 1..(n - 1)

\* C1 as stated: with a version N configured, construction succeeds if and
\* only if the versions of the steps are exactly {1, ..., N-1}; in particular
\* N > 1 with an empty list throws.
C1_Original ==
  (constructed # "no" /\ Versioned)
    => ((constructed = "ok") <=> IsExactChain(migrations, currentVersion))

\* C1 amended: with a version N configured, construction succeeds if and only
\* if the list of steps is empty or its versions are exactly {1, ..., N-1};
\* every other list throws.
C1_ChainValidation ==
  (constructed # "no" /\ Versioned)
    => ((constructed = "ok")
          <=> (migrations = <<>> \/ IsExactChain(migrations, currentVersion)))

\* a complete chain listed out of order is accepted and sorted
C1_Witness ==
  /\ constructed = "ok"
  /\ currentVersion = 3
  /\ Len(migrations) = 2
  /\ migrations[1].version = 2
  /\ sortedMigrations[1].version = 1

\* C2: a non-empty migrations list with no version configured always throws
\* at construction, whatever the versions of the steps; no store is returned.
C2_VersionRequired ==
  (constructed # "no" /\ migrations # <<>> /\ ~Versioned)
    => constructed = "threw"

\* the steps are sequential from 1, and the missing version is what throws
C2_Witness ==
  /\ constructed = "threw"
  /\ ~Versioned
  /\ Len(migrations) = 2
  /\ constructError = "Version is required when migrations are provided"

HasEvent(op) == \E i \in 1..Len(log) : log[i].op = op

Events(op) == SelectSeq(log, LAMBDA e : e.op = op)

NoMigrationInvoked ==
  ~HasEvent("migration.schema.parseAsync") /\ ~HasEvent("migration.migrate")

NoValidationInvoked == ~HasEvent("schema.parseAsync")

\* The six load failures, read off the file and the capability calls of the
\* settled load rather than off its outcome.
ReadFailure == disk.state = "missing"

DecodeFailure == disk.state = "file" /\ disk.text # "json"

VersionTagFailure ==
  /\ Versioned
  /\ disk.text = "json"
  /\ \/ disk.val.kind # "object"
     \/ disk.val.ver.t # "int"
     \/ disk.val.ver.n <= 0

UnsupportedFailure ==
  /\ Versioned
  /\ disk.text = "json"
  /\ disk.val.kind = "object"
  /\ disk.val.ver.t = "int"
  /\ disk.val.ver.n > currentVersion

\* no step exists for the version the data has reached
MissingStep ==
  LET reached == fileVersion + Len(Events("migrate resolves"))
  IN /\ Versioned
     /\ fileVersion >= 1
     /\ reached < currentVersion
     /\ \A i \in 1..Len(sortedMigrations) : sortedMigrations[i].version # reached

StepValidationFailure ==
  \E i \in 1..Len(log) :
    /\ log[i].op = "migration.schema.parseAsync"
    /\ ~SchemaParse(StepSchema(log[i].v), log[i].arg).ok

MigrationFailure ==
  MissingStep \/ StepValidationFailure \/ HasEvent("migrate throws")

ValidationFailure ==
  \E i \in 1..Len(log) :
    /\ log[i].op = "schema.parseAsync"
    /\ ~SchemaParse(schema, log[i].arg).ok

FailedStage ==
  IF ReadFailure THEN "FileRead"
  ELSE IF DecodeFailure THEN "InvalidJSON"
  ELSE IF VersionTagFailure THEN "InvalidVersion"
  ELSE IF UnsupportedFailure THEN "UnsupportedVersion"
  ELSE IF MigrationFailure THEN "Migration"
  ELSE IF ValidationFailure THEN "Validation"
  ELSE "none"

\* C3: store at version N with a complete chain, file at version K with
\* 1 <= K < N, no migration step fails: the transforms of steps K, ..., N-1
\* are invoked in ascending order, each exactly once; step K receives the file
\* payload and each later step the previous step's result (the transform gets
\* it as validated by the step's schema); a returned value is the current
\* schema's output for the last step's result.
C3_MigrationOrder ==
  (/\ LoadDone
   /\ Versioned
   /\ Len(sortedMigrations) = currentVersion - 1
   /\ fileVersion \in 1..(currentVersion - 1)
   /\ outcome.stage # "Migration")
    => LET calls == Events("migration.migrate")
           parses == Events("migration.schema.parseAsync")
           results == Events("migrate resolves")
           n == currentVersion - fileVersion
       IN /\ Len(calls) = n /\ Len(parses) = n /\ Len(results) = n
          /\ \A i \in 1..n :
               /\ calls[i].v = fileVersion + i - 1
               /\ parses[i].v = fileVersion + i - 1
               /\ parses[i].arg = IF i = 1 THEN ExtractData(parsed)
                                  ELSE results[i - 1].arg
               /\ SchemaParse(StepSchema(calls[i].v), parses[i].arg).ok
               /\ calls[i].arg = SchemaParse(StepSchema(calls[i].v), parses[i].arg).val
          /\ outcome.stage \in {"none", "Validation"}
          /\ outcome.type = "value"
               => /\ SchemaParse(schema, results[n].arg).ok
                  /\ outcome.value = SchemaParse(schema, results[n].arg).val
                  /\ outcome.value.shape = schema.shape

\* a file at version 1 is taken through steps 1 and 2 of a store at version 3
C3_Witness ==
  /\ LoadDone
  /\ currentVersion = 3
  /\ fileVersion = 1
  /\ Len(Events("migration.migrate")) = 2
  /\ outcome.type = "value"

\* C4: on a versioned store, a file whose version tag equals the current
\* version invokes no migration step's schema or transform, whatever the
\* length of the chain; the payload goes straight to the current schema.
C4_NoMigrationAtCurrent ==
  (LoadDone /\ Versioned /\ fileVersion = currentVersion)
    => /\ NoMigrationInvoked
       /\ Events("schema.parseAsync") = <<Event("schema.parseAsync", 0, ExtractData(parsed))>>
       /\ outcome.stage \in {"none", "Validation"}

C4_Witness ==
  /\ LoadDone
  /\ currentVersion = 3
  /\ Len(sortedMigrations) = 2
  /\ fileVersion = 3
  /\ outcome.type = "value"

\* C5: after a successful save(v, p) with no other write to p, load(p) on the
\* same store returns a value equal to v and invokes no migration step.
C5_RoundTrip ==
  (LoadDone /\ lastSaved # NoValue)
    => /\ outcome.type = "value"
       /\ outcome.value = lastSaved
       /\ NoMigrationInvoked

\* C6: with a default configured and throwOnError not set, each of the six
\* load failures makes load return the default; load does not throw.
C6_DefaultOnFailure ==
  (LoadDone /\ defaultValue # "undefined" /\ loadOptions # "true")
    => /\ outcome.type # "throw"
       /\ FailedStage # "none"
            => /\ outcome.type = "default"
               /\ outcome.value = DefaultObject
               /\ outcome.stage = FailedStage

\* a transform throws and the load returns the default
C6_Witness ==
  /\ LoadDone
  /\ loadOptions = "omitted"
  /\ HasEvent("migrate throws")
  /\ outcome.type = "default"

\* C7: with throwOnError: true a load never returns the default: every one of
\* the six failures rejects with the typed error whose code is that of the
\* failing stage, also with a default configured, and getDefault and the
\* default producer are not invoked.
C7_ThrowOnErrorWins ==
  (LoadDone /\ loadOptions = "true")
    => /\ outcome.type # "default"
       /\ ~HasEvent("getDefault")
       /\ ~HasEvent("defaultValue()")
       /\ FailedStage # "none"
            => outcome.type = "throw" /\ outcome.code = FailedStage
       /\ FailedStage = "none" => outcome.type = "value"

C7_Witness ==
  /\ LoadDone
  /\ loadOptions = "true"
  /\ defaultValue = "function"
  /\ outcome.type = "throw"
  /\ outcome.code = "Validation"

\* C8: without a default, every load failure rejects with the typed error of
\* its stage, whether throwOnError is false, true or omitted; load never
\* resolves with a value after a failure.
C8_NoDefaultThrows ==
  (LoadDone /\ defaultValue = "undefined")
    => /\ outcome.type \in {"value", "throw"}
       /\ FailedStage # "none"
            => outcome.type = "throw" /\ outcome.code = FailedStage
       /\ outcome.type = "value" => FailedStage = "none"

C8_Witness ==
  /\ LoadDone
  /\ defaultValue = "undefined"
  /\ loadOptions = "false"
  /\ outcome.type = "throw"
  /\ outcome.code = "Migration"

\* C9: a file whose version tag is a valid integer greater than the current
\* version fails with UnsupportedVersion, or returns the default under the
\* recovery policy; no migration step and no validation against the current
\* schema is invoked.
C9_UnsupportedVersion ==
  (/\ LoadDone
   /\ Versioned
   /\ parsed.kind = "object"
   /\ parsed.ver.t = "int"
   /\ parsed.ver.n > currentVersion)
    => /\ IF throwOnError \/ defaultValue = "undefined"
          THEN outcome.type = "throw" /\ outcome.code = "UnsupportedVersion"
          ELSE outcome.type = "default" /\ outcome.value = DefaultObject
       /\ outcome.stage = "UnsupportedVersion"
       /\ NoMigrationInvoked
       /\ NoValidationInvoked

C9_Witness ==
  /\ LoadDone
  /\ currentVersion = 2
  /\ Len(sortedMigrations) = 1
  /\ parsed.ver = IntTag(3)
  /\ outcome.code = "UnsupportedVersion"

\* C10: on a versioned store, decoded content that is not an object, is null,
\* has no _version, or has a _version that is not a number, not an integer or
\* <= 0 fails with InvalidVersion, or returns the default under the recovery
\* policy; no migration step and no schema validation is invoked.
C10_InvalidVersion ==
  (/\ LoadDone
   /\ Versioned
   /\ parsed.kind # "none"
   /\ \/ parsed.kind \in {"prim", "null"}
      \/ parsed.ver.t \in {"none", "string", "float"}
      \/ parsed.ver.t = "int" /\ parsed.ver.n <= 0)
    => /\ IF throwOnError \/ defaultValue = "undefined"
          THEN outcome.type = "throw" /\ outcome.code = "InvalidVersion"
          ELSE outcome.type = "default" /\ outcome.value = DefaultObject
       /\ outcome.stage = "InvalidVersion"
       /\ NoMigrationInvoked
       /\ NoValidationInvoked

\* _version: 1.5
C10_Witness ==
  /\ LoadDone
  /\ Versioned
  /\ parsed.ver = FloatTag
  /\ outcome.type = "throw"
  /\ outcome.code = "InvalidVersion"

\* C11: the value save hands to JSON.stringify is the encoded data itself,
\* with no version tag added, when no version is configured, and the encoded
\* fields of the data with exactly one _version field next to them when a
\* version is configured.
C11_VersionTagOnSave ==
  \A i \in 1..Len(log) :
    log[i].op = "JSON.stringify"
      => LET enc == SchemaEncode(schema, data).val
         IN IF Versioned
            THEN /\ log[i].arg.kind = "object"
                 /\ log[i].arg.ver.t = "int"
                 /\ ExtractData(log[i].arg) = ExtractData(enc)
            ELSE /\ log[i].arg = enc
                 /\ data.ver.t = "none" => log[i].arg.ver.t = "none"

C11_Witness ==
  /\ SaveDone
  /\ outcome.type = "saved"
  /\ currentVersion = 2
  /\ \E i \in 1..Len(log) :
       log[i].op = "JSON.stringify" /\ log[i].arg.ver = IntTag(2)

\* C12: with a producer function as default, each load that falls back
\* invokes the producer exactly once and returns that invocation's result
\* (the n-th fallback returns the n-th result, nothing is cached); no other
\* step invokes it.
C12_ProducerPerFallback ==
  [][LET fallsBack == /\ defaultValue = "function"
                      /\ pc # "done"
                      /\ pc' = "done"
                      /\ outcome'.type = "default"
     IN /\ fallsBack
            => /\ producerCalls' = producerCalls + 1
               /\ outcome'.callId = producerCalls'
               /\ Len(SelectSeq(log', LAMBDA e : e.op = "defaultValue()")) = 1
        /\ ~fallsBack => producerCalls' = producerCalls]_vars

\* the second falling-back load returns the producer's second result
C12_Witness ==
  /\ LoadDone
  /\ defaultValue = "function"
  /\ outcome.type = "default"
  /\ producerCalls = 2
  /\ outcome.callId = 2

\* C13: in the migration loop a transform is called only on the output of a
\* successful validation against its own step's schema; when that validation
\* fails, neither that transform nor any later step nor the current schema is
\* invoked, and load fails with Migration or returns the default under the
\* recovery policy.
C13_StepValidatedFirst ==
  /\ \A j \in 1..Len(log) :
       log[j].op = "migration.migrate"
         => /\ j > 1
            /\ log[j - 1].op = "migration.schema.parseAsync"
            /\ log[j - 1].v = log[j].v
            /\ SchemaParse(StepSchema(log[j].v), log[j - 1].arg).ok
            /\ log[j].arg = SchemaParse(StepSchema(log[j].v), log[j - 1].arg).val
  /\ \A i \in 1..Len(log) :
       (/\ LoadDone
        /\ log[i].op = "migration.schema.parseAsync"
        /\ ~SchemaParse(StepSchema(log[i].v), log[i].arg).ok)
         => /\ \A k \in (i + 1)..Len(log) :
                 log[k].op \in {"getDefault", "defaultValue()"}
            /\ outcome.stage = "Migration"
            /\ IF throwOnError \/ defaultValue = "undefined"
               THEN outcome.type = "throw" /\ outcome.code = "Migration"
               ELSE outcome.type = "default" /\ outcome.value = DefaultObject

\* step 1 ran, the data then fails the schema of step 2
C13_Witness ==
  /\ LoadDone
  /\ StepValidationFailure
  /\ Len(Events("migration.migrate")) = 1
  /\ Len(Events("migration.schema.parseAsync")) = 2
  /\ outcome.code = "Migration"

ThrowingStep == Events("migrate throws")[1].v

NoStepAfterThrow ==
  \A i \in 1..Len(log) :
    log[i].op = "migrate throws"
      => \A k \in (i + 1)..Len(log) : log[k].op \in {"getDefault", "defaultValue()"}

\* C14 as stated: when the transform of the step for version v throws or
\* rejects, load fails with code Migration, the message names v, the thrown
\* error is the cause and no later step is invoked.
C14_Original ==
  (LoadDone /\ HasEvent("migrate throws"))
    => /\ outcome.type = "throw"
       /\ outcome.code = "Migration"
       /\ outcome.version = ThrowingStep
       /\ outcome.cause = "Error"
       /\ NoStepAfterThrow

\* C14 amended: when the transform of the step for version v throws or
\* rejects, no later step is invoked and, under the throwing policy
\* (throwOnError or no default), load fails with code Migration, the message
\* names v and the thrown error is the cause; otherwise load returns the
\* default.
C14_TransformThrows ==
  (LoadDone /\ HasEvent("migrate throws"))
    => /\ NoStepAfterThrow
       /\ outcome.stage = "Migration"
       /\ IF throwOnError \/ defaultValue = "undefined"
          THEN /\ outcome.type = "throw"
               /\ outcome.code = "Migration"
               /\ outcome.version = ThrowingStep
               /\ outcome.cause = "Error"
          ELSE outcome.type = "default" /\ outcome.value = DefaultObject

\* step 2 of a file at version 1 throws: the error names 2
C14_Witness ==
  /\ LoadDone
  /\ HasEvent("migrate throws")
  /\ fileVersion = 1
  /\ outcome.type = "throw"
  /\ outcome.version = 2

\* C15: when the schema's encode fails, save rejects with code Encoding,
\* JSON.stringify and fs.writeFile are not invoked, the file is left as it
\* was, and neither a configured default nor an option makes save succeed.
C15_EncodingFails ==
  [][(pc = "encode" /\ ~SchemaEncode(schema, data).ok)
       => /\ pc' = "done"
          /\ outcome'.type = "throw"
          /\ outcome'.code = "Encoding"
          /\ disk' = disk
          /\ \A i \in 1..Len(log') :
               log'[i].op \notin {"JSON.stringify", "writeFile", "getDefault"}
          /\ producerCalls' = producerCalls]_vars

\* a store with a default and a file on disk: the save throws
C15_Witness ==
  /\ SaveDone
  /\ outcome.code = "Encoding"
  /\ defaultValue = "literal"
  /\ compact
  /\ disk.state = "file"

\* C16: when fs.writeFile fails, save rejects with code FileWrite and the
\* underlying error as cause; save never calls getDefault and never resolves
\* after an encode or write failure, also with a default configured.
C16_WriteFails ==
  SaveDone
    => /\ ~HasEvent("getDefault")
       /\ outcome.type \in {"saved", "throw"}
       /\ HasEvent("writeFile rejects")
            => /\ outcome.type = "throw"
               /\ outcome.code = "FileWrite"
               /\ outcome.cause = "Error"
       /\ ~SchemaEncode(schema, data).ok => outcome.type = "throw"
       /\ outcome.type = "saved"
            => SchemaEncode(schema, data).ok /\ HasEvent("writeFile resolves")

C16_Witness ==
  /\ SaveDone
  /\ HasEvent("writeFile rejects")
  /\ defaultValue = "function"
  /\ outcome.code = "FileWrite"

\* type ErrorCode, and 'InvalidJSON', the name createZodJSON gives to
\* 'InvalidFormat'
ErrorCodes ==
  {"FileRead", "FileWrite", "InvalidFormat", "InvalidVersion",
   "UnsupportedVersion", "Validation", "Migration", "Encoding",
   "MissingDependency", "InvalidJSON"}

\* the exception of the capability a failed call stopped at; "none" when the
\* failure is a check of the store itself
UnderlyingException ==
  IF SaveDone
  THEN IF ~SchemaEncode(schema, data).ok THEN "ZodError"
       ELSE IF HasEvent("writeFile rejects") THEN "Error"
       ELSE "none"
  ELSE IF ReadFailure THEN "Error"
  ELSE IF DecodeFailure THEN "SyntaxError"
  ELSE IF VersionTagFailure \/ UnsupportedFailure THEN "none"
  ELSE IF StepValidationFailure THEN "ZodError"
  ELSE IF HasEvent("migrate throws") THEN "Error"
  ELSE IF MissingStep THEN "none"
  ELSE IF ValidationFailure THEN "ZodError"
  ELSE "none"

\* C17: every error load or save surfaces is the typed error with a code of
\* the taxonomy, and when the failure is an exception of an underlying
\* capability (read, decode, step validation, transform, final validation,
\* encode, write) that exception is the error's cause.
C17_TypedErrors ==
  (pc = "done" /\ outcome.type = "throw")
    => /\ outcome.code \in ErrorCodes
       /\ UnderlyingException # "none"
            => outcome.cause = UnderlyingException

\* the calls a task made to the store's capabilities (file system, serializer,
\* schema) in its call in flight
StoreCalls(t) == SelectSeq(task[t].trace, LAMBDA e : e.op # "import rejects")

\* C18: createZodYAML returns a store also when js-yaml cannot be imported;
\* as long as the import fails every load and every save of the store rejects
\* with the typed error of code MissingDependency, whatever the default and
\* throwOnError, and has read, decoded, validated, encoded and written
\* nothing.
C18_MissingDependency ==
  \A t \in Tasks :
    /\ task[t].pc # "idle" => yamlStore.created
    /\ (task[t].pc = "done" /\ ~jsYamlInstalled)
         => /\ task[t].outcome.type = "throw"
            /\ task[t].outcome.code = "MissingDependency"
            /\ StoreCalls(t) = <<>>
    /\ (task[t].pc = "done" /\ Len(task[t].trace) > 0
        /\ task[t].trace[1].op = "import rejects")
         => /\ task[t].outcome.type = "throw"
            /\ task[t].outcome.code = "MissingDependency"
            /\ StoreCalls(t) = <<>>
    /\ ~jsYamlInstalled => jsYamlModule = "undefined" /\ yamlSerializer = OriginalSerializer

\* a load and a save have both been rejected, on a store with a default and a
\* readable file
C18_Witness ==
  /\ ~jsYamlInstalled
  /\ yamlStore.created
  /\ yamlStore.default = "literal"
  /\ yamlFile.text = "yaml"
  /\ \E t, u \in Tasks :
       /\ task[t].pc = "done" /\ task[t].op = "load"
       /\ task[t].opts.throwOnError = "omitted"
       /\ task[t].outcome.code = "MissingDependency"
       /\ task[u].pc = "done" /\ task[u].op = "save"
       /\ task[u].outcome.code = "MissingDependency"

DecodeCalls(t) == SelectSeq(task[t].trace, LAMBDA e : e.op = "serializer.parse")

WithoutThrowOnError(o) == [o EXCEPT !.throwOnError = "omitted"]

C20_OnlyValidatedValues ==
  LoadDone
    => /\ outcome.type \in {"value", "default", "throw"}
       /\ outcome.type = "value"
            => /\ Len(Events("schema.parseAsync")) = 1
               /\ SchemaParse(schema, Events("schema.parseAsync")[1].arg).ok
               /\ outcome.value = SchemaParse(schema, Events("schema.parseAsync")[1].arg).val
               /\ outcome.value # parsed
               /\ \A i \in 1..Len(log) : log[i].op = "migrate resolves"
                                           => outcome.value # log[i].arg
       /\ outcome.type = "default" => outcome.value = DefaultObject
       /\ (/\ Len(Events("migrate resolves")) > 0
           /\ log[Len(log)].op # "migrate resolves"
           /\ ~HasEvent("migrate throws")
           /\ ~StepValidationFailure
           /\ ~MissingStep
           /\ ~SchemaParse(schema, Events("migrate resolves")[Len(Events("migrate resolves"))].arg).ok)
            => outcome.stage = "Validation" /\ outcome.type # "value"

\* the last step resolved with a result the current schema rejects
C20_Witness ==
  /\ LoadDone
  /\ Len(Events("migrate resolves")) = 2
  /\ outcome.type = "throw"
  /\ outcome.code = "Validation"

\* the values a load handed to a schema or a transform, in the order of the
\* calls
ValuesSeen ==
  SelectSeq(log, LAMBDA e : e.op \in {"migration.schema.parseAsync",
                                      "migration.migrate", "schema.parseAsync"})

StageRank(name) ==
  CASE name \in {"readFile", "FileRead"} -> 1
    [] name \in {"JSON.parse", "InvalidJSON"} -> 2
    [] name = "InvalidVersion" -> 3
    [] name = "UnsupportedVersion" -> 4
    [] name \in {"migration.schema.parseAsync", "migration.migrate",
                 "migrate throws", "migrate resolves", "Migration"} -> 5
    [] name \in {"schema.parseAsync", "Validation", "none"} -> 6
    [] OTHER -> 7

\* C22: load goes through read, decode, version-tag check, unsupported-version
\* check, migration and final validation in this order and stops at the first
\* stage that fails: the outcome is that of the earliest failing stage, and no
\* capability of a later stage is called after the failure.
C22_StageOrder ==
  LoadDone
    => /\ outcome.stage = FailedStage
       /\ (outcome.type = "throw") => outcome.code = FailedStage
       /\ (outcome.type = "value") <=> FailedStage = "none"
       /\ \A i, j \in 1..Len(log) :
            i < j => StageRank(log[i].op) <= StageRank(log[j].op)
       /\ \A i \in 1..Len(log) :
            \/ StageRank(log[i].op) <= StageRank(FailedStage)
            \/ log[i].op \in {"getDefault", "defaultValue()"}

\* the file is newer than the store and its fields fit no schema: the load
\* stops at the version check
C22_Witness ==
  /\ LoadDone
  /\ UnsupportedFailure
  /\ disk.val.shape = 0
  /\ outcome.type = "throw"
  /\ outcome.code = "UnsupportedVersion"
  /\ Len(log) = 2

\* C23: the steps of one load never overlap, whether their transforms return
\* a value or a promise: a transform is followed in the load's calls by its
\* own settling before anything else is called, the step for the next version
\* starts only then, and what goes on to the next schema is the value the
\* transform returned or resolved with, so that the steps taken and the result
\* do not depend on which transforms are asynchronous.
C23_StepsNeverOverlap ==
  (Len(log) > 0 /\ log[1].op = "readFile")
    => /\ \A j \in 1..Len(log) :
            log[j].op = "migration.migrate"
              => IF j = Len(log)
                 THEN pc = "migrate"
                 ELSE /\ log[j + 1].op \in {"migrate resolves", "migrate throws"}
                      /\ log[j + 1].v = log[j].v
       /\ pc = "migrate" => log[Len(log)].op = "migration.migrate"
       /\ \A j \in 1..(Len(log) - 1) :
            (/\ log[j].op = "migrate resolves"
             /\ log[j + 1].op \in {"migration.schema.parseAsync", "schema.parseAsync"})
              => log[j + 1].arg = log[j].arg
       /\ LET calls == Events("migration.migrate")
          IN \A i \in 1..Len(calls) : calls[i].v = fileVersion + i - 1
       /\ asyncSteps \subseteq {Events("migration.migrate")[i].v :
                                  i \in 1..Len(Events("migration.migrate"))}

\* step 1 returned a promise, step 2 a value, and the load returned the
\* migrated data
C23_Witness ==
  /\ LoadDone
  /\ currentVersion = 3
  /\ fileVersion = 1
  /\ asyncSteps = {1}
  /\ Len(Events("migrate resolves")) = 2
  /\ outcome.type = "value"

\* C24: when the loop finds no step for the data version v it has reached,
\* load settles at once: under the throwing policy with code Migration, naming
\* v and with no cause, else with the default; no transform and no schema is
\* called from there on.
C24_MissingStep ==
  (LoadDone /\ MissingStep)
    => LET v == fileVersion + Len(Events("migrate resolves"))
       IN /\ outcome.stage = "Migration"
          /\ IF throwOnError \/ defaultValue = "undefined"
             THEN /\ outcome.type = "throw"
                  /\ outcome.code = "Migration"
                  /\ outcome.version = v
                  /\ outcome.cause = "none"
             ELSE outcome.type = "default" /\ outcome.value = DefaultObject
          /\ Len(Events("migration.migrate")) = Len(Events("migrate resolves"))
          /\ Len(Events("migration.schema.parseAsync")) = Len(Events("migrate resolves"))
          /\ ~HasEvent("schema.parseAsync")
          /\ dataVersion = v

\* a store at version 3 made without migrations loads a file at version 2
C24_Witness ==
  /\ LoadDone
  /\ currentVersion = 3
  /\ migrations = <<>>
  /\ fileVersion = 2
  /\ outcome.type = "throw"
  /\ outcome.code = "Migration"
  /\ outcome.version = 2

\* C25: the store caches no file content: every load makes exactly one
\* fs.readFile call and works on the content the file has at that time, so a
\* load that succeeds after a successful save, with no other write to the
\* path in between, returns the value of that latest save.
C25_NoCache ==
  LoadDone
    => /\ Len(Events("readFile")) = 1
       /\ disk.state = "file" => (HasEvent("JSON.parse") /\ fileContent = disk)
       /\ disk.state = "missing" => outcome.stage = "FileRead"
       /\ (outcome.type = "value" /\ lastSaved # NoValue) => outcome.value = lastSaved

\* the load returns what the latest save wrote
C25_Witness ==
  /\ LoadDone
  /\ outcome.type = "value"
  /\ lastSaved # NoValue
  /\ lastSaved.body = "b"
  /\ outcome.value = lastSaved
  /\ fileContent.indent = 0

\* a call of load or save is in flight
InFlight == pc \notin {"idle", "done"}

\* when every capability call settles, every load and save completes, with
\* exactly one outcome (a value, the default or an error for load; done or an
\* error for save); the loop makes at most N - K transform calls for a file at
\* version K on a store at version N, and each completed step raises the data
\* version by exactly 1
Completes ==
  /\ [](pc = "done" => outcome.type \in {"value", "default", "throw", "saved"})
  /\ [](InFlight => outcome.type = "none")
  /\ []((Versioned /\ pc \in {"stepParse", "migrate", "validate", "done"}
         /\ Len(log) > 0 /\ log[1].op = "readFile"
         /\ fileVersion \in 1..currentVersion)
          => /\ Len(Events("migration.migrate")) <= currentVersion - fileVersion
             /\ Len(Events("migrate resolves")) <= currentVersion - fileVersion
             /\ dataVersion = fileVersion + Len(Events("migrate resolves"))
             /\ dataVersion <= currentVersion)
  /\ [][dataVersion' # dataVersion /\ pc = "migrate"
          => dataVersion' = dataVersion + 1]_vars
  /\ (InFlight ~> pc = "done")

\* C26: when every capability call settles, every load and save completes
\* with exactly one outcome: a value, the default or one typed error (an error
\* with a code of the taxonomy); the migration loop for a file at version K on
\* a store at version N makes at most N - K iterations and each completed step
\* raises the data version by exactly 1.
C26_Terminates ==
  /\ Completes
  /\ []((pc = "done" /\ outcome.type = "throw") => outcome.code \in ErrorCodes)

\* the arrays that list the steps of ms in another order
Reorderings(ms) ==
  {[i \in 1..Len(ms) |-> ms[f[i]]] : f \in Permutations(1..Len(ms))}

\* C27: the order in which the caller lists the migration steps does not
\* matter: listed in any other order, the same steps make construction throw
\* the same error or accept, and leave the store with the same sorted chain,
\* the only thing load finds its steps in; the caller's array is written by
\* nobody after it was passed and stays in the order the caller gave it.
C27_OrderIrrelevant ==
  /\ [](constructed # "no"
          => \A p \in Reorderings(migrations) :
               /\ ChainError(currentVersion, SortMigrations(p)) = constructError
               /\ constructed = "ok" => SortMigrations(p) = sortedMigrations)
  /\ [][constructed # "no" => migrations' = migrations]_vars

\* a store made with its two steps listed last first has loaded a file of
\* version 1 through both steps, in ascending order, and its caller's array is
\* still last first
C27_Witness ==
  /\ LoadDone
  /\ migrations = <<MigrationStep(2), MigrationStep(1)>>
  /\ sortedMigrations = <<MigrationStep(1), MigrationStep(2)>>
  /\ outcome.type = "value"
  /\ Len(Events("migration.migrate")) = 2
  /\ Events("migration.migrate")[1].v = 1
  /\ Events("migration.migrate")[2].v = 2

\* C28: on a store made without a version, load checks no version tag and
\* runs no step: once the content is decoded the one schema call is that of
\* the current schema, on the whole decoded content, its _version key
\* included when the file has one, and no load of such a store ends in
\* InvalidVersion, UnsupportedVersion or Migration.
C28_UnversionedLoad ==
  (~Versioned /\ Len(log) > 0 /\ log[1].op = "readFile")
    => /\ NoMigrationInvoked
       /\ fileVersion = 0 /\ dataVersion = 0
       /\ (HasEvent("JSON.parse") /\ JSONparse(disk).ok)
            => /\ pc \in {"validate", "done"}
               /\ ValuesSeen = <<Event("schema.parseAsync", 0, JSONparse(disk).val)>>
               /\ data = JSONparse(disk).val
       /\ pc = "done"
            => /\ outcome.stage \notin {"InvalidVersion", "UnsupportedVersion",
                                        "Migration"}
               /\ outcome.code \notin {"InvalidVersion", "UnsupportedVersion",
                                       "Migration"}

\* an unversioned store has loaded a file whose object has a _version key
\* and handed it, key included, to the current schema
C28_Witness ==
  /\ LoadDone
  /\ ~Versioned
  /\ parsed.kind = "object"
  /\ parsed.ver.t # "none"
  /\ Events("schema.parseAsync")[1].arg.ver = parsed.ver

\* the task's call has entered the inner store's load or save
InStore(t) == task[t].pc \in {"readFile", "validate", "encode", "writeFile"}

\* the task's call has invoked the serializer
SerializerInvoked(t) ==
  \E i \in 1..Len(task[t].trace) :
    task[t].trace[i].op \in {"serializer.parse", "serializer.stringify"}

\* C29: in every interleaving of the load and save calls of a createZodYAML
\* store, a call is inside the inner store, or has invoked the serializer's
\* parse or stringify, only with js-yaml loaded and the serializer patched
\* with it; no call ends in the "js-yaml must be loaded" error of the
\* unpatched serializer.
C29_SerializerPatchedFirst ==
  \A t \in Tasks :
    /\ (InStore(t) \/ SerializerInvoked(t))
         => /\ jsYamlModule = "js-yaml"
            /\ yamlSerializer.parse = "patched"
            /\ yamlSerializer.stringify = "patched"
    /\ task[t].pc = "done"
         => /\ task[t].outcome.cause # "ZodStoreError"
            /\ task[t].outcome.code = "MissingDependency" => StoreCalls(t) = <<>>

\* two first calls both found the cache empty and started the import; one
\* has gone on to decode the file while the other still waits for its import
C29_Witness ==
  \E t, u \in Tasks :
    /\ task[t].pc = "getJsYaml" /\ task[t].importing
    /\ task[u].op = "load" /\ SerializerInvoked(u)
    /\ task[u].pc \in {"validate", "done"}
    /\ jsYamlModule = "js-yaml"

\* the task's `await getJsYaml()` resumes in this step
GetJsYamlResumes(t) == task[t].pc = "getJsYaml" /\ task'[t].pc # "getJsYaml"

\* C30: the module cache changes only from empty to the module, in a step in
\* which a call's import succeeds, and it holds the module only if js-yaml
\* could be imported; it is never emptied, not by a new store either. A call
\* that starts imports exactly when it finds the cache empty: after one
\* success no later call of any store imports again. A call whose import
\* fails leaves the cache empty.
C30_ModuleCache ==
  /\ [](jsYamlModule = "js-yaml" => jsYamlInstalled)
  /\ [][/\ jsYamlModule' # jsYamlModule
             => /\ jsYamlModule = "undefined"
                /\ jsYamlModule' = "js-yaml"
                /\ \E t \in Tasks : GetJsYamlResumes(t) /\ task[t].importing
                                      /\ ImportJsYaml.ok
        /\ \A t \in Tasks :
             /\ (task[t].pc = "idle" /\ task'[t].pc = "getJsYaml")
                  => (task'[t].importing <=> jsYamlModule = "undefined")
             /\ (GetJsYamlResumes(t) /\ ~task[t].importing)
                  => /\ jsYamlModule = "js-yaml"
                     /\ task'[t].pc # "done"
             /\ (GetJsYamlResumes(t) /\ task[t].importing /\ ~ImportJsYaml.ok)
                  => /\ jsYamlModule' = "undefined"
                     /\ task'[t].outcome.code = "MissingDependency"
             /\ (GetJsYamlResumes(t) /\ task[t].importing /\ ImportJsYaml.ok)
                  => jsYamlModule' = "js-yaml"]_yamlVars

\* after the module was cached a new store was made, and a call of it is
\* waiting on getJsYaml without an import
C30_Witness ==
  /\ jsYamlModule = "js-yaml"
  /\ yamlSerializer = OriginalSerializer
  /\ \E t \in Tasks : task[t].pc = "getJsYaml" /\ ~task[t].importing

\* C31: the serializer object createZodYAML hands to the store is not changed
\* from within a load or a save: whatever calls have run, its parse and
\* stringify are the functions createYAMLSerializer gave it.
C31_SerializerNotMutated ==
  yamlStore.created => yamlSerializer = OriginalSerializer

\* C32: on a versioned store the _version of the value save hands to
\* JSON.stringify is the store's configured version, whatever the data, also
\* when the encoded data has a _version field of its own.
C32_SavedVersionIsConfigured ==
  Versioned
    => \A i \in 1..Len(log) :
         log[i].op = "JSON.stringify" => log[i].arg.ver = IntTag(currentVersion)

\* the call in flight or just completed has consulted the default
DefaultConsulted == HasEvent("getDefault") \/ HasEvent("defaultValue()")

\* C33: getDefault is called, and through it the producer, only by a load
\* that fails with a default configured and throwOnError not set, the load
\* that returns the default: a load that returns the file's value, a load
\* that throws and every save call neither; the producer's call count moves
\* only in the step that completes a falling-back load; and no load ends in
\* the plain 'No default value configured' error of getDefault.
C33_DefaultOnlyOnFallback ==
  /\ [](DefaultConsulted
          => /\ LoadDone
             /\ outcome.type = "default"
             /\ defaultValue # "undefined"
             /\ ~throwOnError
             /\ FailedStage # "none"
             /\ Len(Events("getDefault")) = 1
             /\ log[Len(log)].op \in {"getDefault", "defaultValue()"})
  /\ []((pc = "done" /\ outcome.type \in {"value", "throw", "saved"})
          => ~DefaultConsulted)
  /\ []((LoadDone /\ outcome.type = "throw") => outcome.code # "untyped")
  /\ [][producerCalls' # producerCalls
          => /\ pc # "done" /\ pc' = "done"
             /\ log'[1].op = "readFile"
             /\ outcome'.type = "default"]_vars

\* on a store whose default is a producer: a load has thrown under
\* throwOnError and a save has completed, the producer uncalled so far
C33_Witness ==
  /\ defaultValue = "function"
  /\ producerCalls = 0
  /\ lastSaved # NoValue
  /\ LoadDone
  /\ throwOnError
  /\ outcome.type = "throw"

====
